---- MODULE Spec2Model ----
(***************************************************************************)
(* Model of the XOR-hash preimage demo (src/src/main.rs): the native       *)
(* digest, the xor_sum gadget, MyCircuit::synthesize and the setup ->      *)
(* prove -> verify run of main.                                            *)
(*                                                                         *)
(* Field elements are integers: every value the circuit handles is below   *)
(* 2^8, far from the modulus, so no reduction ever happens.  Option<T> is  *)
(* a sequence of length 0 (None) or 1 (Some).  Sequences are 1-based, the  *)
(* Rust indices are 0-based: names and variable numbers keep the Rust      *)
(* numbering.                                                              *)
(***************************************************************************)
EXTENDS Integers, Sequences, FiniteSets, TLC

VARIABLES pc, trace, params, pvk, preimage, hash, prover, proof, inputs,
          tampered, verdict

vars == <<pc, trace, params, pvk, preimage, hash, prover, proof, inputs,
          tampered, verdict>>

INPUT_SIZE == 32

None == <<>>
Some(x) == <<x>>

(***************************************************************************)
(* Bytes.                                                                  *)
(***************************************************************************)
RECURSIVE Pow2(_)
Pow2(n) == IF n = 0 THEN 1 ELSE 2 * Pow2(n - 1)

\* (byte >> i) & 1u8 == 1u8
BitOf(byte, i) == (byte \div Pow2(i)) % 2 = 1

\* a ^ b on u8
RECURSIVE XorBits(_, _, _)
XorByte(a, b) == XorBits(a, b, 0)
XorBits(a, b, i) ==
    IF i = 8 THEN 0
    ELSE (IF BitOf(a, i) # BitOf(b, i) THEN Pow2(i) ELSE 0) + XorBits(a, b, i + 1)

\* data.iter().fold(prev, |prev, next| prev ^ next) from element k on; the
\* accumulator is a u8 at every step.
RECURSIVE FoldXor(_, _, _)
FoldXor(data, k, prev) ==
    IF k > Len(data) \/ prev \notin 0..255 THEN prev
    ELSE FoldXor(data, k + 1, XorByte(prev, data[k]))

RECURSIVE FoldShiftXor(_, _, _)
FoldShiftXor(data, k, prev) ==
    IF k > Len(data) \/ prev \notin 0..255 THEN prev
    ELSE FoldShiftXor(data, k + 1, XorByte((2 * prev) % 256, data[k]))

\* A digest that folds with (prev << 1) ^ next: no longer order-independent.
native_xor_sum_shift(data) ==
    IF Len(data) # INPUT_SIZE THEN None ELSE Some(FoldShiftXor(data, 1, 0))

\* None stands for the panic of assert_eq!(data.len(), INPUT_SIZE).
native_xor_sum(data) ==
    IF Len(data) # INPUT_SIZE THEN None ELSE Some(FoldXor(data, 1, 0))

(***************************************************************************)
(* Constraint System.  A variable is <<"Input", i>> or <<"Aux", i>>; a     *)
(* linear combination is a sequence of <<coefficient, variable>> terms.    *)
(* mode "setup" is parameter generation, where the value closures are      *)
(* never called; mode "prove" calls them and fails on a missing value.     *)
(* named is the ledger of every namespace, variable and constraint path    *)
(* in the order written; ns is the current namespace stack.                *)
(***************************************************************************)
ONE == <<"Input", 0>>

NewCS(mode) ==
    [mode        |-> mode,
     input       |-> <<IF mode = "prove" THEN Some(1) ELSE None>>,
     aux         |-> <<>>,
     constraints |-> <<>>,
     named       |-> <<>>,
     ns          |-> <<>>,
     err         |-> "Ok"]

Namespace(cs, name) ==
    IF cs.err # "Ok" THEN cs
    ELSE [cs EXCEPT !.named = Append(@, <<"namespace", cs.ns \o <<name>>>>),
                    !.ns = Append(@, name)]

PopNamespace(cs) ==
    IF cs.err # "Ok" THEN cs ELSE [cs EXCEPT !.ns = SubSeq(@, 1, Len(@) - 1)]

Alloc(cs, name, value) ==
    IF cs.err # "Ok" THEN [cs |-> cs, variable |-> ONE]
    ELSE IF cs.mode = "prove" /\ value = None
    THEN [cs |-> [cs EXCEPT !.err = "AssignmentMissing"], variable |-> ONE]
    ELSE [cs |-> [cs EXCEPT
                    !.aux = Append(@, IF cs.mode = "prove" THEN value ELSE None),
                    !.named = Append(@, <<"variable", cs.ns \o <<name>>>>)],
          variable |-> <<"Aux", Len(cs.aux)>>]

AllocInput(cs, name, value) ==
    IF cs.err # "Ok" THEN [cs |-> cs, variable |-> ONE]
    ELSE IF cs.mode = "prove" /\ value = None
    THEN [cs |-> [cs EXCEPT !.err = "AssignmentMissing"], variable |-> ONE]
    ELSE [cs |-> [cs EXCEPT
                    !.input = Append(@, IF cs.mode = "prove" THEN value ELSE None),
                    !.named = Append(@, <<"variable", cs.ns \o <<name>>>>)],
          variable |-> <<"Input", Len(cs.input)>>]

Enforce(cs, name, a, b, c) ==
    IF cs.err # "Ok" THEN cs
    ELSE [cs EXCEPT !.constraints = Append(@, [a |-> a, b |-> b, c |-> c]),
                    !.named = Append(@, <<"constraint", cs.ns \o <<name>>>>)]

(***************************************************************************)
(* Boolean values: Constant(b), Is(bit), Not(bit) over an AllocatedBit     *)
(* [variable, value: Option<bool>].                                        *)
(***************************************************************************)
Constant(b) == [tag |-> "Constant", variable |-> ONE, value |-> Some(b)]
Is(bit)     == [tag |-> "Is", variable |-> bit.variable, value |-> bit.value]
Not(bit)    == [tag |-> "Not", variable |-> bit.variable, value |-> bit.value]

Boolean_not(x) ==
    CASE x.tag = "Constant" -> Constant(~x.value[1])
      [] x.tag = "Is"       -> Not(x)
      [] x.tag = "Not"      -> Is(x)

Boolean_get_value(x) ==
    IF x.tag = "Not"
    THEN (IF x.value = None THEN None ELSE Some(~x.value[1]))
    ELSE x.value

\* Boolean::lc(one, coeff)
Boolean_lc(x, coeff) ==
    CASE x.tag = "Constant" -> IF x.value[1] THEN <<<<coeff, ONE>>>> ELSE <<>>
      [] x.tag = "Is"       -> <<<<coeff, x.variable>>>>
      [] x.tag = "Not"      -> <<<<coeff, ONE>>, <<0 - coeff, x.variable>>>>

\* AllocatedBit::alloc: one variable "boolean", one constraint (1 - a) * a = 0.
AllocatedBit_alloc(cs, value) ==
    LET al == Alloc(cs, "boolean",
                    IF value = None THEN None ELSE Some(IF value[1] THEN 1 ELSE 0))
        v  == al.variable
    IN [cs  |-> Enforce(al.cs, "boolean constraint",
                        <<<<1, ONE>>, <<-1, v>>>>, <<<<1, v>>>>, <<>>),
        bit |-> [variable |-> v,
                 value |-> value]]

\* AllocatedBit::xor: one variable "xor result", one constraint
\* (a + a) * b = a + b - c.  result_value is set only when the value closure
\* runs, that is in mode "prove".
AllocatedBit_xor(cs, a, b) ==
    LET known == a.value # None /\ b.value # None
        rv    == IF known THEN Some(a.value[1] # b.value[1]) ELSE None
        al    == Alloc(cs, "xor result",
                       IF known THEN Some(IF rv[1] THEN 1 ELSE 0) ELSE None)
        c     == al.variable
    IN [cs  |-> Enforce(al.cs, "xor constraint",
                        <<<<1, a.variable>>, <<1, a.variable>>>>,
                        <<<<1, b.variable>>>>,
                        <<<<1, a.variable>>, <<1, b.variable>>, <<-1, c>>>>),
        bit |-> [variable |-> c,
                 value |-> IF cs.mode = "prove" THEN rv ELSE None]]

\* Boolean::xor
Boolean_xor(cs, a, b) ==
    CASE a.tag = "Constant" /\ ~a.value[1] -> [cs |-> cs, out |-> b]
      [] b.tag = "Constant" /\ ~b.value[1] -> [cs |-> cs, out |-> a]
      [] a.tag = "Constant" /\ a.value[1]  -> [cs |-> cs, out |-> Boolean_not(b)]
      [] b.tag = "Constant" /\ b.value[1]  -> [cs |-> cs, out |-> Boolean_not(a)]
      [] a.tag = "Is" /\ b.tag = "Not" ->
            LET r == AllocatedBit_xor(cs, a, b) IN [cs |-> r.cs, out |-> Not(r.bit)]
      [] a.tag = "Not" /\ b.tag = "Is" ->
            LET r == AllocatedBit_xor(cs, b, a) IN [cs |-> r.cs, out |-> Not(r.bit)]
      [] OTHER ->
            LET r == AllocatedBit_xor(cs, a, b) IN [cs |-> r.cs, out |-> Is(r.bit)]

(***************************************************************************)
(* multipack.  CAPACITY is Scalar::CAPACITY of the BLS12-381 scalar field. *)
(***************************************************************************)
CAPACITY == 254

\* multipack::bytes_to_bits_le
bytes_to_bits_le(bytes) ==
    [k \in 1..(Len(bytes) * 8) |-> BitOf(bytes[((k - 1) \div 8) + 1], (k - 1) % 8)]

\* multipack::bytes_to_bits: most significant bit first (used by pack_hash_be)
bytes_to_bits(bytes) ==
    [k \in 1..(Len(bytes) * 8) |-> BitOf(bytes[((k - 1) \div 8) + 1], 7 - ((k - 1) % 8))]

Min(a, b) == IF a < b THEN a ELSE b

\* The i-th (0-based) chunk of s.chunks(n).
Chunk(s, n, i) == SubSeq(s, i * n + 1, Min((i + 1) * n, Len(s)))

NumChunks(s, n) == (Len(s) + n - 1) \div n

RECURSIVE PackValue(_, _)
PackValue(bits, j) ==
    IF j > Len(bits) THEN 0
    ELSE (IF bits[j] THEN Pow2(j - 1) ELSE 0) + PackValue(bits, j + 1)

\* multipack::compute_multipacking
compute_multipacking(bits) ==
    [i \in 1..NumChunks(bits, CAPACITY) |-> PackValue(Chunk(bits, CAPACITY, i - 1), 1)]

RECURSIVE NumLc(_, _)
NumLc(bits, j) ==
    IF j > Len(bits) THEN <<>>
    ELSE Boolean_lc(bits[j], Pow2(j - 1)) \o NumLc(bits, j + 1)

\* Num::zero() followed by add_bool_with_coeff for every bit of the chunk.
NumValue(bits) ==
    IF \E j \in 1..Len(bits) : Boolean_get_value(bits[j]) = None THEN None
    ELSE Some(PackValue([j \in 1..Len(bits) |-> Boolean_get_value(bits[j])[1]], 1))

\* multipack::pack_into_inputs
RECURSIVE pack_chunks(_, _, _)
pack_chunks(cs, bits, i) ==
    IF i >= NumChunks(bits, CAPACITY) \/ cs.err # "Ok" THEN cs
    ELSE LET chunk == Chunk(bits, CAPACITY, i)
             al    == AllocInput(cs, "input " \o ToString(i), NumValue(chunk))
             cs2   == Enforce(al.cs, "packing constraint " \o ToString(i),
                              NumLc(chunk, 1), <<<<1, ONE>>>>, <<<<1, al.variable>>>>)
         IN pack_chunks(cs2, bits, i + 1)

pack_into_inputs(cs, bits) == pack_chunks(cs, bits, 0)

(***************************************************************************)
(* The xor_sum gadget.                                                     *)
(***************************************************************************)
\* Step k of the loop of xor_sum: chunk i = k div 8, zipped position
\* j = k mod 8.  It pushes the namespace "xor [i]", calls Boolean::xor in it
\* and drops it; st is [cs, out], out the accumulator `byte`.
xor_step(st, data, k) ==
    IF st.cs.err # "Ok" THEN st
    ELSE LET i   == k \div 8
             j   == (k % 8) + 1
             cs1 == Namespace(st.cs, "xor [" \o ToString(i) \o "]")
             r   == Boolean_xor(cs1, st.out[j], data[k + 1])
         IN [cs |-> PopNamespace(r.cs), out |-> [st.out EXCEPT ![j] = r.out]]

\* Steps lo .. hi - 1 in order (split in halves to keep the evaluation flat).
RECURSIVE xor_loop(_, _, _, _)
xor_loop(st, data, lo, hi) ==
    IF lo >= hi THEN st
    ELSE IF hi = lo + 1 THEN xor_step(st, data, lo)
    ELSE LET mid   == (lo + hi) \div 2
             first == xor_loop(st, data, lo, mid)
         IN IF first.cs.err # "Ok" THEN first ELSE xor_loop(first, data, mid, hi)

xor_from(cs, data, init, k0) ==
    IF cs.err # "Ok" THEN [cs |-> cs, out |-> <<>>]
    ELSE IF Len(data) # INPUT_SIZE * 8
    THEN [cs |-> [cs EXCEPT !.err = "panic"], out |-> <<>>]
    ELSE xor_loop([cs |-> cs, out |-> [j \in 1..8 |-> init]], data, k0, Len(data))

\* The accumulator starts as Constant(true).
xor_sum_init_true(cs, data) == xor_from(cs, data, Constant(TRUE), 0)

\* The first chunk is skipped.
xor_sum_skip_first(cs, data) == xor_from(cs, data, Constant(FALSE), 8)

xor_sum(cs, data) == xor_from(cs, data, Constant(FALSE), 0)

(***************************************************************************)
(* MyCircuit::synthesize.                                                  *)
(***************************************************************************)
\* Seven bits per byte when the witness is present.
bit_values_seven(pre) ==
    IF pre # None
    THEN [k \in 1..(Len(pre[1]) * 7) |->
            Some(BitOf(pre[1][((k - 1) \div 7) + 1], (k - 1) % 7))]
    ELSE [k \in 1..(INPUT_SIZE * 8) |-> None]

\* The bits of each byte most significant first.
bit_values_msb(pre) ==
    IF pre # None
    THEN [k \in 1..(Len(pre[1]) * 8) |->
            Some(BitOf(pre[1][((k - 1) \div 8) + 1], 7 - ((k - 1) % 8)))]
    ELSE [k \in 1..(INPUT_SIZE * 8) |-> None]

bit_values(pre) ==
    IF pre # None
    THEN [k \in 1..(Len(pre[1]) * 8) |->
            Some(BitOf(pre[1][((k - 1) \div 8) + 1], (k - 1) % 8))]
    ELSE [k \in 1..(INPUT_SIZE * 8) |-> None]

\* AllocatedBit::alloc of bit i in the namespace "preimage bit i"; st is
\* [cs, bits].
alloc_step(st, vals, i) ==
    IF st.cs.err # "Ok" THEN st
    ELSE LET cs1 == Namespace(st.cs, "preimage bit " \o ToString(i))
             r   == AllocatedBit_alloc(cs1, vals[i + 1])
         IN IF r.cs.err # "Ok" THEN [cs |-> r.cs, bits |-> st.bits]
            ELSE [cs |-> PopNamespace(r.cs), bits |-> Append(st.bits, Is(r.bit))]

\* Bits lo .. hi - 1 in order (split in halves to keep the evaluation flat).
RECURSIVE alloc_bits(_, _, _, _)
alloc_bits(st, vals, lo, hi) ==
    IF lo >= hi THEN st
    ELSE IF hi = lo + 1 THEN alloc_step(st, vals, lo)
    ELSE LET mid   == (lo + hi) \div 2
             first == alloc_bits(st, vals, lo, mid)
         IN IF first.cs.err # "Ok" THEN first ELSE alloc_bits(first, vals, mid, hi)

synthesize(pre, cs) ==
    LET vals == bit_values(pre)
        pb == alloc_bits([cs |-> cs, bits |-> <<>>], vals, 0, Len(vals))
        h  == xor_sum(Namespace(pb.cs, "xor_sum(preimage)"), pb.bits)
        cs3 == PopNamespace(h.cs)
    IN [cs   |-> PopNamespace(pack_into_inputs(Namespace(cs3, "pack hash"), h.out)),
        hash |-> h.out]

(***************************************************************************)
(* groth16, idealised: a proof is the statement it was built for.  It      *)
(* verifies exactly when it was built from a satisfying assignment of the  *)
(* circuit the parameters were generated for and the supplied public       *)
(* inputs are those of that assignment.                                    *)
(***************************************************************************)
ValueOf(cs, v) == IF v[1] = "Input" THEN cs.input[v[2] + 1][1] ELSE cs.aux[v[2] + 1][1]

RECURSIVE Eval(_, _, _)
Eval(cs, lc, k) ==
    IF k > Len(lc) THEN 0 ELSE lc[k][1] * ValueOf(cs, lc[k][2]) + Eval(cs, lc, k + 1)

\* A * B = C for every constraint, under the assignment of cs.
IsSatisfied(cs) ==
    \A n \in 1..Len(cs.constraints) :
        LET q == cs.constraints[n]
        IN Eval(cs, q.a, 1) * Eval(cs, q.b, 1) = Eval(cs, q.c, 1)

\* What parameter generation sees of a synthesis: everything but the values.
Shape(cs) ==
    [num_inputs  |-> Len(cs.input),
     num_aux     |-> Len(cs.aux),
     constraints |-> cs.constraints,
     named       |-> cs.named,
     err         |-> cs.err]

generate_random_parameters(circuit) == synthesize(circuit, NewCS("setup")).cs

prepare_verifying_key(p) == [ic_len |-> Len(p.input)]

synthesize_witness(circuit) == synthesize(circuit, NewCS("prove")).cs

create_random_proof(pr, p) ==
    [public    |-> [n \in 1..Len(pr.input) |-> pr.input[n][1]],
     satisfied |-> IsSatisfied(pr),
     circuit   |-> Shape(pr) = Shape(p)]

verify_proof(k, prf, public_inputs) ==
    IF Len(public_inputs) + 1 # k.ic_len THEN "InvalidVerifyingKey"
    ELSE IF prf.circuit /\ prf.satisfied /\ prf.public = <<1>> \o public_inputs
    THEN "Ok"
    ELSE "InvalidProof"

(***************************************************************************)
(* main.                                                                   *)
(***************************************************************************)
\* *b"da confusion of da highest orda!"
Literal ==
    <<100, 97, 32, 99, 111, 110, 102, 117, 115, 105, 111, 110, 32, 111, 102, 32,
      100, 97, 32, 104, 105, 103, 104, 101, 115, 116, 32, 111, 114, 100, 97, 33>>

MaxPos == 2
MaxSample == 2
MaxSwap == 2

SampleBytes == {(k * 85) % 256 : k \in 0..MaxSample}

\* The secrets the model draws: the literal of main, the literal with one
\* byte replaced, and constant strings.
Preimages ==
    {Literal}
    \cup {[Literal EXCEPT ![p] = v] : p \in 1..MaxPos, v \in SampleBytes}
    \cup {[n \in 1..INPUT_SIZE |-> v] : v \in SampleBytes}

\* The byte swaps the model draws (0-based positions): that of main, and
\* those among the first positions.
Swaps == {<<3, 13>>} \cup {<<i, j>> : i \in 0..MaxSwap, j \in 0..MaxSwap}

\* slice::swap(a, b)
swap(data, a, b) == [data EXCEPT ![a + 1] = data[b + 1], ![b + 1] = data[a + 1]]

\* The witnessed circuit is built without the preimage.
witness_circuit_none(data) == None

\* MyCircuit { preimage: Some(preimage) }
witness_circuit(data) == Some(data)

\* The hash is split most significant bit first.
pack_hash_be(h) == compute_multipacking(bytes_to_bits(<<h>>))

\* bytes_to_bits_le(&[hash]) followed by compute_multipacking
pack_hash(h) == compute_multipacking(bytes_to_bits_le(<<h>>))

\* The proof is generated after the hash is packed.
MainOrder_pack_first ==
    <<"generate_params", "prepare_vk", "pick_secret", "native_hash", "swap",
      "pack", "prove", "verify">>

\* The statements of main, in program order.
MainOrder ==
    <<"generate_params", "prepare_vk", "pick_secret", "native_hash", "swap",
      "prove", "pack", "verify">>

StepAfter(step) ==
    LET k == CHOOSE n \in 1..Len(MainOrder) : MainOrder[n] = step
    IN IF k = Len(MainOrder) THEN "success" ELSE MainOrder[k + 1]

\* The step is entered; it leads to the next one unless it panics.
Goto(step, ok) ==
    /\ pc = step
    /\ trace' = Append(trace, step)
    /\ pc' = IF ok THEN StepAfter(step) ELSE "panic"

Init ==
    /\ pc = MainOrder[1]
    /\ trace = <<>>
    /\ params = None
    /\ pvk = None
    /\ preimage = <<>>
    /\ hash = None
    /\ prover = None
    /\ proof = None
    /\ inputs = <<>>
    /\ tampered = FALSE
    /\ verdict = "none"

\* generate_random_parameters(MyCircuit { preimage: None }, ..).unwrap()
GenerateParams ==
    LET p == generate_random_parameters(None)
    IN /\ Goto("generate_params", p.err = "Ok")
       /\ params' = Some(p)
       /\ UNCHANGED <<pvk, preimage, hash, prover, proof, inputs, tampered, verdict>>

PrepareVk ==
    /\ Goto("prepare_vk", TRUE)
    /\ pvk' = Some(prepare_verifying_key(params[1]))
    /\ UNCHANGED <<params, preimage, hash, prover, proof, inputs, tampered, verdict>>

PickSecret ==
    /\ Goto("pick_secret", TRUE)
    /\ \E p \in Preimages : preimage' = p
    /\ UNCHANGED <<params, pvk, hash, prover, proof, inputs, tampered, verdict>>

NativeHash ==
    LET h == native_xor_sum(preimage)
    IN /\ Goto("native_hash", h # None)
       /\ hash' = h
       /\ UNCHANGED <<params, pvk, preimage, prover, proof, inputs, tampered, verdict>>

SwapBytes ==
    /\ Goto("swap", TRUE)
    /\ \E sw \in Swaps : preimage' = swap(preimage, sw[1], sw[2])
    /\ UNCHANGED <<params, pvk, hash, prover, proof, inputs, tampered, verdict>>

\* create_random_proof(c, &params, ..).unwrap()
Prove ==
    LET pr == synthesize_witness(witness_circuit(preimage))
    IN /\ Goto("prove", pr.err = "Ok")
       /\ prover' = Some(pr)
       /\ proof' = IF pr.err = "Ok" THEN Some(create_random_proof(pr, params[1]))
                   ELSE None
       /\ UNCHANGED <<params, pvk, preimage, hash, inputs, tampered, verdict>>

Pack ==
    /\ Goto("pack", TRUE)
    /\ inputs' = pack_hash(hash[1])
    /\ UNCHANGED <<params, pvk, preimage, hash, prover, proof, tampered, verdict>>

\* One bit of the packed public input is flipped before verifying.
Tamper ==
    /\ pc = "verify"
    /\ ~tampered
    /\ Len(inputs) >= 1
    /\ \E k \in 0..7 : inputs' = [inputs EXCEPT ![1] = XorByte(@, Pow2(k))]
    /\ tampered' = TRUE
    /\ UNCHANGED <<pc, trace, params, pvk, preimage, hash, prover, proof, verdict>>

\* assert!(groth16::verify_proof(&pvk, &proof, &inputs).is_ok())
Verify ==
    LET v == verify_proof(pvk[1], proof[1], inputs)
    IN /\ Goto("verify", v = "Ok")
       /\ verdict' = v
       /\ UNCHANGED <<params, pvk, preimage, hash, prover, proof, inputs, tampered>>

Next ==
    \/ GenerateParams
    \/ PrepareVk
    \/ PickSecret
    \/ NativeHash
    \/ SwapBytes
    \/ Prove
    \/ Pack
    \/ Tamper
    \/ Verify

Spec == Init /\ [][Next]_vars

(***************************************************************************)
(* Properties.                                                             *)
(***************************************************************************)
\* The step has been entered.
Done(step) == \E n \in 1..Len(trace) : trace[n] = step

IsPrefix(s, t) == Len(s) <= Len(t) /\ \A n \in 1..Len(s) : s[n] = t[n]

RECURSIVE Restrict(_, _)
Restrict(s, keep) ==
    IF s = <<>> THEN <<>>
    ELSE (IF s[1] \in keep THEN <<s[1]>> ELSE <<>>) \o Restrict(Tail(s), keep)

\* The witnessed synthesis has run to its end.
Proved == prover # None /\ prover[1].err = "Ok"

\* The public inputs of an assignment, the constant ONE left out.
PublicInputs(cs) == [n \in 1..(Len(cs.input) - 1) |-> cs.input[n + 1][1]]

\* The ledger entries of the given kind below the namespace path prefix.
Below(cs, kind, prefix) ==
    {n \in 1..Len(cs.named) :
        /\ cs.named[n][1] = kind
        /\ Len(cs.named[n][2]) > Len(prefix)
        /\ SubSeq(cs.named[n][2], 1, Len(prefix)) = prefix}

\* C1: for every preimage, the output of the xor_sum gadget over the bits
\* allocated by synthesize, packed little-endian into the public input,
\* equals native_xor_sum of the same bytes.
C1_GadgetMatchesNative ==
    Done("prove") =>
        /\ Proved
        /\ Len(prover[1].input) = 2
        /\ Some(prover[1].input[2][1]) = native_xor_sum(preimage)

C1_Witness ==
    /\ Proved
    /\ preimage # Literal
    /\ prover[1].input[2][1] = 22

\* C2: a proof built from witness W with digest D is accepted exactly when
\* the supplied public input is the packing of D; any other packing, a
\* one-bit flip included, is rejected.
C2_AcceptIffDigest ==
    verdict # "none" =>
        /\ verdict = "Ok" <=> inputs = pack_hash(native_xor_sum(preimage)[1])
        /\ tampered => verdict = "InvalidProof"

C2_Witness ==
    /\ verdict = "InvalidProof"
    /\ tampered
    /\ inputs # pack_hash(native_xor_sum(preimage)[1])

\* C3: the synthesis without a witness and the synthesis with any witness
\* write the same ledger: the same numbers of variables and constraints,
\* the same constraints and the same sequence of steps.
C3_SameShape ==
    (params # None /\ prover # None) => Shape(params[1]) = Shape(prover[1])

C3_Witness ==
    /\ Proved
    /\ Len(prover[1].constraints) = 505
    /\ Len(params[1].constraints) = 505
    /\ prover[1].aux # params[1].aux

\* C4: swapping bytes of the preimage leaves the digest, hence the packed
\* public input, unchanged, and the proof built from the swapped preimage
\* verifies against the public input computed before the swap.
C4_SwapInvariant ==
    /\ Done("swap") => native_xor_sum(preimage) = hash
    /\ (verdict # "none" /\ ~tampered) =>
            /\ verdict = "Ok"
            /\ inputs = pack_hash(hash[1])

C4_Witness ==
    /\ verdict = "Ok"
    /\ preimage = swap(Literal, 3, 13)
    /\ preimage # Literal

C6_PackingAgrees ==
    (Done("pack") /\ Done("prove") /\ ~tampered) =>
        /\ Len(inputs) = 1
        /\ inputs = PublicInputs(prover[1])
        /\ inputs[1] = hash[1]

C6_Witness ==
    /\ Done("pack")
    /\ Proved
    /\ ~tampered
    /\ inputs = <<22>>

\* C7 as stated: the listed steps run in the order generate parameters,
\* pick the secret, compute the digest, pack, prove, verify.
C7_PackBeforeProve ==
    IsPrefix(Restrict(trace, {"generate_params", "pick_secret", "native_hash",
                              "pack", "prove", "verify"}),
             <<"generate_params", "pick_secret", "native_hash", "pack", "prove",
               "verify">>)

\* C7 amended: the listed steps run in the order generate parameters, pick
\* the secret, compute the digest, prove, pack, verify, each entered only
\* after the one before it has completed.
C7_ProveBeforePack ==
    /\ IsPrefix(Restrict(trace, {"generate_params", "pick_secret", "native_hash",
                                 "pack", "prove", "verify"}),
                <<"generate_params", "pick_secret", "native_hash", "prove", "pack",
                  "verify">>)
    /\ Done("pick_secret") => params # None
    /\ Done("native_hash") => Len(preimage) = INPUT_SIZE
    /\ Done("prove") => hash # None
    /\ Done("pack") => prover # None
    /\ Done("verify") => (Len(inputs) = 1 /\ proof # None)

C7_Witness ==
    /\ pc = "success"
    /\ Restrict(trace, {"native_hash", "pack", "prove", "verify"})
         = <<"native_hash", "prove", "pack", "verify">>

\* C8: every namespace, variable and constraint written during a synthesis
\* has a unique path.
C8_UniquePaths ==
    params # None =>
        Cardinality({params[1].named[n][2] : n \in 1..Len(params[1].named)})
            = Len(params[1].named)

\* C9: in xor_sum a step whose accumulator is Constant(false) writes
\* nothing and hands on the input bit, every other step writes exactly one
\* variable and one constraint; the reduction writes 248 of each, with or
\* without a witness.
XorCost(cs) ==
    LET xs == <<"xor_sum(preimage)">>
    IN /\ Cardinality(Below(cs, "variable", xs)) = 248
       /\ Cardinality(Below(cs, "constraint", xs)) = 248
       /\ Below(cs, "variable", xs \o <<"xor [0]">>) = {}
       /\ Below(cs, "constraint", xs \o <<"xor [0]">>) = {}
       /\ \A n \in 1..Len(cs.named) :
            (cs.named[n][1] = "namespace" /\ Len(cs.named[n][2]) = 2
             /\ cs.named[n][2][1] = xs[1] /\ cs.named[n][2][2] # "xor [0]") =>
                /\ n + 2 <= Len(cs.named)
                /\ cs.named[n + 1] = <<"variable", cs.named[n][2] \o <<"xor result">>>>
                /\ cs.named[n + 2] = <<"constraint", cs.named[n][2] \o <<"xor constraint">>>>
                /\ (n + 3 <= Len(cs.named) => cs.named[n + 3][1] = "namespace")
       /\ \A j \in 0..7 :
            LET q == cs.constraints[(INPUT_SIZE * 8) + j + 1]
            IN /\ q.a = <<<<1, <<"Aux", j>>>>, <<1, <<"Aux", j>>>>>>
               /\ q.b = <<<<1, <<"Aux", 8 + j>>>>>>

C9_XorCost ==
    /\ params # None => (params[1].err = "Ok" /\ XorCost(params[1]))
    /\ prover # None => (prover[1].err = "Ok" /\ XorCost(prover[1]))

C9_Witness ==
    /\ Proved
    /\ Len(prover[1].aux) = 504
    /\ Len(params[1].aux) = 504

\* C10: for every witness the assignment of the witnessed synthesis
\* satisfies every constraint written (256 booleanity constraints, 248 XOR
\* constraints, one packing constraint), so proving never fails; the run
\* can fail at the verification only.
C10_AlwaysSatisfied ==
    /\ Done("prove") =>
            /\ Proved
            /\ Len(prover[1].constraints) = 505
            /\ IsSatisfied(prover[1])
            /\ proof # None
            /\ proof[1].satisfied
    /\ pc = "panic" => (trace[Len(trace)] = "verify" /\ verdict = "InvalidProof")

C10_Witness ==
    /\ Proved
    /\ proof # None
    /\ proof[1].satisfied
    /\ PublicInputs(prover[1]) = <<22>>
    /\ pc = "panic"

====
